---- MODULE Spec2Model ----
(***************************************************************************)
(* Update manager (update.py): zip archives are applied on top of a        *)
(* primary folder and removed again, archives move between the update      *)
(* root, _installed_ and _uninstalled_, and dependencies.json records the  *)
(* dependency graph of the installed updates.                              *)
(*                                                                         *)
(* A path string is modelled by its split on "/": "t/a" is <<"t","a">>,    *)
(* "t/" is <<"t","">>, "../b" is <<"..","b">>, "P/" is <<"P","">>.  The    *)
(* current directory is <<>>, and relative paths are resolved from it.     *)
(* An archive file name "p.zip" is <<"p">>, and "p_1.zip" is <<"p",1>>.    *)
(***************************************************************************)
EXTENDS Integers, Sequences, FiniteSets, TLC

VARIABLES
  files,           \* regular files of the file system (canonical paths)
  dirs,            \* directories of the file system (canonical paths)
  primary_folder,  \* the primary_folder argument, as passed
  root,            \* *.zip directly under updates_dir: name -> archive
  inst,            \* updates_dir/_installed_/*.zip:    name -> archive
  unin,            \* updates_dir/_uninstalled_/*.zip:  name -> archive
  dependencies,    \* dependencies.json "dependencies": name -> list of names
  dependents,      \* dependencies.json "dependents":   name -> list of names
  mode,            \* which loop the process is in
  todo,            \* the (zip_name, bucket) pairs still to be processed
  runs,            \* how many times the program was started
  last             \* what the last step did and returned

vars == <<files, dirs, primary_folder, root, inst, unin,
          dependencies, dependents, mode, todo, runs, last>>

fsvars  == <<files, dirs, primary_folder>>
bktvars == <<root, inst, unin>>
depvars == <<dependencies, dependents>>

(***************************************************************************)
(* Bounds                                                                  *)
(***************************************************************************)
\* most runs of the program
MaxRuns == 3
\* most "_<i>" suffixes one archive name carries
MaxSuffix == 1

(***************************************************************************)
(* Sequences and sets                                                      *)
(***************************************************************************)
Range(s) == {s[i] : i \in 1..Len(s)}

Contains(s, x) == \E i \in 1..Len(s) : s[i] = x

Count(s, x) == Cardinality({i \in 1..Len(s) : s[i] = x})

\* all the orders in which the elements of S can be listed
Orders(S) ==
  {o \in [1..Cardinality(S) -> S] : \A i, j \in 1..Cardinality(S) : o[i] = o[j] => i = j}

(***************************************************************************)
(* Paths                                                                   *)
(***************************************************************************)
NoPath == <<"*">>

\* os.path.dirname
dirname(p) == SubSeq(p, 1, Len(p) - 1)

\* os.path.join of two relative paths
join(a, b) ==
  IF a = <<>> THEN b
  ELSE IF a[Len(a)] = "" THEN dirname(a) \o b
  ELSE a \o b

\* path resolution by the operating system, from directory cur: every
\* component is looked up in an existing directory
RECURSIVE resolve(_, _, _)
resolve(cur, rest, ds) ==
  IF rest = <<>> THEN cur
  ELSE IF cur \notin ds THEN NoPath
  ELSE LET c == Head(rest) IN
       IF c = "" \/ c = "." THEN resolve(cur, Tail(rest), ds)
       ELSE IF c = ".." THEN resolve(IF cur = <<>> THEN cur ELSE dirname(cur), Tail(rest), ds)
       ELSE resolve(Append(cur, c), Tail(rest), ds)

canon(p, fs) == resolve(<<>>, p, fs.dirs)

\* os.path.exists; the empty string names nothing
exists(p, fs) == p # <<>> /\ canon(p, fs) \in (fs.files \cup fs.dirs)

\* os.listdir of a canonical directory
listdir(d, fs) == {q \in fs.files \cup fs.dirs : q # <<>> /\ dirname(q) = d}

(***************************************************************************)
(* Archives: the namelist of each zip file                                 *)
(***************************************************************************)
\* the archives of the update directory
Archives == {1, 2, 3}

\* 1: "t/a"   2: "t/", "t/a", "b"   3: "../b"
\* 4: "t"     5: "b", "b"           6: "t/"       7: "t/a", "u/c"
\* 8: a file that is not a zip archive, or cannot be read
namelist(z) ==
  CASE z = 1 -> << <<"t", "a">> >>
    [] z = 2 -> << <<"t", "">>, <<"t", "a">>, <<"b">> >>
    [] z = 3 -> << <<"..", "b">> >>
    [] z = 4 -> << <<"t">> >>
    [] z = 5 -> << <<"b">>, <<"b">> >>
    [] z = 7 -> << <<"t", "a">>, <<"u", "c">> >>
    [] OTHER -> << <<"t", "">> >>

\* zipfile.ZipFile(update_zip_path) or extractall raises
bad_zip(z) == z = 8

\* zipfile.extractall drops the "", "." and ".." components of a member name
sanitize(zp) == SelectSeq(zp, LAMBDA c : c \notin {"", ".", ".."})

\* the regular files extractall leaves in the temporary directory
extracted(z) ==
  {sanitize(namelist(z)[i]) :
     i \in {k \in 1..Len(namelist(z)) : namelist(z)[k][Len(namelist(z)[k])] # ""}}

\* os.walk is top-down: the files of a directory come before the files of
\* the directories below it; the order inside one directory is listdir's
walk(z) ==
  {o \in Orders(extracted(z)) :
     \A i, j \in 1..Len(o) : i < j => Len(o[i]) <= Len(o[j])}

(***************************************************************************)
(* Archive delta engine.  A run's state is a record: the file system       *)
(* (files, dirs) and the result lists built so far.  The entries of a      *)
(* result list are paths as the code builds them; a failure is a pair      *)
(* <<path, reason>>.                                                       *)
(***************************************************************************)
ZipPath(bucket, name) == <<bucket, name>>

\* analyze_update_zip, lines 253-262: remove the directories the deleted
\* file leaves empty, upwards, until primary_folder.  An os.rmdir that raises
\* ends the loop in the except clause of the entry, which appends the file,
\* already in removed, to failed
RECURSIVE prune_dirs(_, _, _, _, _)
prune_dirs(s, primary_file_path, dir_path, primary, rmfail) ==
  IF dir_path # primary /\ exists(dir_path, s)
  THEN IF listdir(canon(dir_path, s), s) = {}
       THEN IF dir_path \in rmfail
            THEN [s EXCEPT !.failed = Append(@, <<primary_file_path, "rmdir">>)]
            ELSE prune_dirs([s EXCEPT !.dirs = @ \ {canon(dir_path, s)}],
                            primary_file_path, dirname(dir_path), primary, rmfail)
       ELSE s
  ELSE s

\* analyze_update_zip, lines 237-264: one name of the namelist.
\* rmfail: the paths on which os.remove or os.rmdir raises (permissions,
\* locks)
analyze_entry(s, zip_path, primary, rmfail) ==
  IF zip_path[Len(zip_path)] = "" THEN s
  ELSE LET primary_file_path == join(primary, zip_path) IN
       IF exists(primary_file_path, s)
       THEN IF canon(primary_file_path, s) \in s.dirs \/ primary_file_path \in rmfail
            THEN [s EXCEPT !.failed = Append(@, <<primary_file_path, "remove">>)]
            ELSE prune_dirs([s EXCEPT !.files = @ \ {canon(primary_file_path, s)},
                                      !.removed = Append(@, primary_file_path)],
                            primary_file_path, dirname(primary_file_path),
                            primary, rmfail)
       ELSE [s EXCEPT !.not_found = Append(@, primary_file_path)]

RECURSIVE analyze_loop(_, _, _, _)
analyze_loop(s, file_list, primary, rmfail) ==
  IF file_list = <<>> THEN s
  ELSE analyze_loop(analyze_entry(s, Head(file_list), primary, rmfail),
                    Tail(file_list), primary, rmfail)

\* analyze_update_zip: present says whether update_zip_path exists, z is the
\* archive found there
analyze_update_zip(present, update_zip_path, z, primary, fs, rmfail) ==
  LET s0 == [files |-> fs.files, dirs |-> fs.dirs,
             removed |-> <<>>, not_found |-> <<>>, failed |-> <<>>]
  IN IF ~present
     THEN [s0 EXCEPT !.failed = <<<<update_zip_path, "File not found">>>>]
     ELSE IF ~exists(primary, fs)
     THEN [s0 EXCEPT !.failed = <<<<primary, "Directory not found">>>>]
     ELSE IF bad_zip(z)
     THEN [s0 EXCEPT !.failed = <<<<update_zip_path, "Invalid zip file">>>>]
     ELSE analyze_loop(s0, namelist(z), primary, rmfail)

\* os.makedirs(d, exist_ok=True) succeeds unless a component of d is a file
makedirs_ok(d, fs) == \A k \in 1..Len(d) : SubSeq(d, 1, k) \notin fs.files

makedirs(d, fs) == fs.dirs \cup {SubSeq(d, 1, k) : k \in 1..Len(d)}

\* apply_update_zip, lines 306-328: one extracted file, rel its path below
\* the temporary directory.  cpfail: the targets on which shutil.copy2 raises
apply_file(s, rel, update_zip_path, primary, cpfail) ==
  LET target_file_path == join(primary, rel)
      t == canon(primary, s) \o rel
  IN IF ~makedirs_ok(dirname(t), s)
     THEN [s EXCEPT !.failed = Append(@, <<update_zip_path, "makedirs">>),
                    !.aborted = TRUE]
     ELSE LET s1 == [s EXCEPT !.dirs = makedirs(dirname(t), s)] IN
          IF t \in s1.dirs
          THEN \* copy2 onto a directory writes the file inside it
               IF Append(t, rel[Len(rel)]) \in s1.dirs \/ target_file_path \in cpfail
               THEN [s1 EXCEPT !.failed = Append(@, <<target_file_path, "copy">>)]
               ELSE [s1 EXCEPT !.files = @ \cup {Append(t, rel[Len(rel)])},
                               !.overwritten = Append(@, target_file_path)]
          ELSE IF target_file_path \in cpfail
          THEN [s1 EXCEPT !.failed = Append(@, <<target_file_path, "copy">>)]
          ELSE IF t \in s1.files
          THEN [s1 EXCEPT !.overwritten = Append(@, target_file_path)]
          ELSE [s1 EXCEPT !.files = @ \cup {t},
                          !.copied = Append(@, target_file_path)]

\* apply_update_zip, lines 302-335: the walk; an exception of makedirs is
\* not caught per file and ends the walk
RECURSIVE apply_loop(_, _, _, _, _)
apply_loop(s, order, update_zip_path, primary, cpfail) ==
  IF order = <<>> \/ s.aborted THEN s
  ELSE apply_loop(apply_file(s, Head(order), update_zip_path, primary, cpfail),
                  Tail(order), update_zip_path, primary, cpfail)

\* an apply that does not look for the primary folder before it copies
apply_update_zip_unchecked(present, update_zip_path, z, primary, fs, order, cpfail) ==
  LET s0 == [files |-> fs.files, dirs |-> fs.dirs, copied |-> <<>>,
             overwritten |-> <<>>, failed |-> <<>>, aborted |-> FALSE]
  IN IF ~present
     THEN [s0 EXCEPT !.failed = <<<<update_zip_path, "File not found">>>>]
     ELSE IF bad_zip(z)
     THEN [s0 EXCEPT !.failed = <<<<update_zip_path, "Invalid zip file">>>>]
     ELSE apply_loop(s0, order, update_zip_path, primary, cpfail)

\* apply_update_zip: order is the order in which os.walk yields the files
apply_update_zip(present, update_zip_path, z, primary, fs, order, cpfail) ==
  LET s0 == [files |-> fs.files, dirs |-> fs.dirs, copied |-> <<>>,
             overwritten |-> <<>>, failed |-> <<>>, aborted |-> FALSE]
  IN IF ~present
     THEN [s0 EXCEPT !.failed = <<<<update_zip_path, "File not found">>>>]
     ELSE IF ~exists(primary, fs)
     THEN [s0 EXCEPT !.failed = <<<<primary, "Directory not found">>>>]
     ELSE IF bad_zip(z)
     THEN [s0 EXCEPT !.failed = <<<<update_zip_path, "Invalid zip file">>>>]
     ELSE apply_loop(s0, order, update_zip_path, primary, cpfail)

(***************************************************************************)
(* The delta engine on its own: one archive, applied to and removed from   *)
(* a primary folder drawn from the file systems below.                     *)
(***************************************************************************)
\* the zips of a directory of the update directory
Bucket(b) == CASE b = "root" -> root [] b = "unin" -> unin [] OTHER -> inst

NoArchives == [n \in {} |-> 0]
NoGraph == [n \in {} |-> <<>>]

\* the forms in which the primary folder "P" is passed: "P" and "P/"
PrimaryForms == {<<"P">>, <<"P", "">>}

\* the files a file system may hold at the start: inside the primary folder
\* b, t/a, t/c and (instead of the directory t) a file t; next to it, b
FileUniverse ==
  {<<"P", "b">>, <<"P", "t", "a">>, <<"P", "t", "c">>, <<"P", "t">>, <<"b">>}

\* the directories a set of files needs
parents(fset) == UNION {{SubSeq(f, 1, k) : k \in 0..(Len(f) - 1)} : f \in fset}

FileSystems ==
  {fs \in [files : SUBSET FileUniverse,
           dirs : {{<<>>, <<"P">>}, {<<>>, <<"P">>, <<"P", "t">>}}] :
     /\ parents(fs.files) \subseteq fs.dirs
     /\ fs.files \cap fs.dirs = {}}

TheFs == [files |-> files, dirs |-> dirs]

DeltaArchives == 1..8

\* a primary folder that does not exist
MissingFolder == <<"Q">>

DeltaInit ==
  /\ \E fs \in FileSystems : files = fs.files /\ dirs = fs.dirs
  /\ primary_folder \in PrimaryForms \cup {MissingFolder}
  /\ \E z \in DeltaArchives : root = (<<"p">> :> z)
  /\ inst = NoArchives /\ unin = NoArchives
  /\ dependencies = NoGraph /\ dependents = NoGraph
  /\ mode = "delta" /\ todo = <<>> /\ runs = 0
  /\ last = [op |-> "init"]

\* apply_update_zip(update_zip_path, primary_folder), update_zip_path being
\* p.zip of the update root, or p.zip of _installed_, where no file is
DeltaApply ==
  /\ mode = "delta" /\ last.op = "init"
  /\ \E src \in {"root", "inst"},
        order \in walk(root[<<"p">>]),
        cpfail \in SUBSET {join(primary_folder, e) : e \in extracted(root[<<"p">>])} :
       \E r \in {apply_update_zip(<<"p">> \in DOMAIN Bucket(src), ZipPath(src, <<"p">>),
                                   root[<<"p">>], primary_folder, TheFs, order, cpfail)} :
          /\ files' = r.files /\ dirs' = r.dirs
          /\ last' = [op |-> "apply", src |-> src, before |-> TheFs,
                      copied |-> r.copied, overwritten |-> r.overwritten,
                      failed |-> r.failed]
  /\ UNCHANGED <<primary_folder, bktvars, depvars, mode, todo, runs>>

\* the paths analyze_update_zip may pass to os.remove and to os.rmdir for
\* archive z: the path of each entry and the directories above it
RemoveOps(z, primary) ==
  LET paths == {join(primary, namelist(z)[i]) : i \in 1..Len(namelist(z))}
  IN paths \cup {d \in {dirname(q) : q \in paths}
                         \cup {dirname(dirname(q)) : q \in paths} : d # <<>>}

\* analyze_update_zip(update_zip_path, primary_folder), on its own or after
\* the archive was applied
DeltaReverse ==
  /\ mode = "delta" /\ last.op \in {"init", "apply"}
  /\ \E src \in {"root", "inst"},
        rmfail \in SUBSET RemoveOps(root[<<"p">>], primary_folder) :
       \E r \in {analyze_update_zip(<<"p">> \in DOMAIN Bucket(src), ZipPath(src, <<"p">>),
                                     root[<<"p">>], primary_folder, TheFs, rmfail)} :
          /\ files' = r.files /\ dirs' = r.dirs
          /\ last' = [op |-> "reverse", src |-> src, applied |-> last, before |-> TheFs,
                      removed |-> r.removed, not_found |-> r.not_found,
                      failed |-> r.failed]
  /\ UNCHANGED <<primary_folder, bktvars, depvars, mode, todo, runs>>

DeltaNext == DeltaApply \/ DeltaReverse

SpecDelta == DeltaInit /\ [][DeltaNext]_vars

(***************************************************************************)
(* Package location index                                                  *)
(***************************************************************************)
Put(f, k, v) == [x \in (DOMAIN f) \cup {k} |-> IF x = k THEN v ELSE f[x]]

Drop(f, k) == [x \in (DOMAIN f) \ {k} |-> f[x]]

\* get_installed_updates: the listings os.listdir can give, as sequences of
\* (zip_name, bucket)
get_installed_updates ==
  {[i \in 1..Len(o) |-> <<o[i], "inst">>] : o \in Orders(DOMAIN inst)}

\* get_available_updates: the zips of the update root, then those of
\* _uninstalled_
get_available_updates ==
  {[i \in 1..Len(ro) |-> <<ro[i], "root">>] \o [i \in 1..Len(uo) |-> <<uo[i], "unin">>] :
     ro \in Orders(DOMAIN root), uo \in Orders(DOMAIN unin)}

(***************************************************************************)
(* Selections typed at a prompt: "all", or comma separated parts, a part   *)
(* being a number <<n>> or a range <<start, end>>                          *)
(***************************************************************************)
\* most parts in one typed selection
MaxParts == 2

\* sorted(list(selected))
RECURSIVE SortedSeq(_)
SortedSeq(S) ==
  IF S = {} THEN <<>>
  ELSE LET m == CHOOSE x \in S : \A y \in S : x <= y
       IN <<m>> \o SortedSeq(S \ {m})

\* the numbers of the parts in the order typed, repeats kept
RECURSIVE parse_parts_in_order(_, _)
parse_parts_in_order(parts, max_num) ==
  IF parts = <<>> THEN <<>>
  ELSE LET part == Head(parts)
           nums == IF Len(part) = 2
                   THEN IF 1 <= part[1] /\ part[1] <= part[2] /\ part[2] <= max_num
                        THEN [i \in 1..(part[2] - part[1] + 1) |-> part[1] + i - 1]
                        ELSE <<>>
                   ELSE IF 1 <= part[1] /\ part[1] <= max_num THEN <<part[1]>> ELSE <<>>
       IN nums \o parse_parts_in_order(Tail(parts), max_num)

\* a parse that collects the numbers in a list and not in a set
parse_selection_keeps_repeats(selection, max_num) ==
  IF selection.all THEN [i \in 1..max_num |-> i]
  ELSE parse_parts_in_order(selection.parts, max_num)

parse_selection(selection, max_num) ==
  IF selection.all THEN [i \in 1..max_num |-> i]
  ELSE SortedSeq(UNION {
         IF Len(selection.parts[k]) = 2
         THEN IF 1 <= selection.parts[k][1] /\ selection.parts[k][1] <= selection.parts[k][2]
                 /\ selection.parts[k][2] <= max_num
              THEN selection.parts[k][1]..selection.parts[k][2]
              ELSE {}
         ELSE IF 1 <= selection.parts[k][1] /\ selection.parts[k][1] <= max_num
              THEN {selection.parts[k][1]}
              ELSE {} : k \in 1..Len(selection.parts)})

\* the parts typed: any number from 0 to max_num + 1, the range over the
\* whole list, a range that ends after it and a range that is reversed
Parts(max_num) ==
  {<<n>> : n \in 0..(max_num + 1)}
    \cup {<<1, max_num>>, <<1, max_num + 1>>, <<max_num, 1>>}

Selections(max_num) ==
  {[all |-> TRUE, parts |-> <<>>]} \cup
  {[all |-> FALSE, parts |-> ps] :
     ps \in UNION {[1..k -> Parts(max_num)] : k \in 0..MaxParts}}

\* the index lists the typed selections parse to, for every length of list
\* the three archives of a run can give
ParsedTable ==
  [max_num \in 0..Cardinality(Archives) |->
     {parse_selection(sel, max_num) : sel \in Selections(max_num)}]

ParsedSelections(max_num) == ParsedTable[max_num]

\* the entries of zip_files at the selected indices
Pick(zip_files, selected_indices) ==
  [i \in 1..Len(selected_indices) |-> zip_files[selected_indices[i]]]

(***************************************************************************)
(* Dependency graph store                                                  *)
(***************************************************************************)
\* a store that appends to the reverse index without looking
RECURSIVE add_dependents_twice(_, _, _)
add_dependents_twice(dpts, update_name, deps) ==
  IF deps = <<>> THEN dpts
  ELSE add_dependents_twice(
         Put(dpts, Head(deps),
             Append(IF Head(deps) \in DOMAIN dpts THEN dpts[Head(deps)] ELSE <<>>,
                    update_name)),
         update_name, Tail(deps))

\* lines 89-93: the reverse index gets update_name once per dependency
RECURSIVE add_dependents(_, _, _)
add_dependents(dpts, update_name, deps) ==
  IF deps = <<>> THEN dpts
  ELSE LET dep == Head(deps)
           cur == IF dep \in DOMAIN dpts THEN dpts[dep] ELSE <<>>
       IN add_dependents(
            Put(dpts, dep, IF Contains(cur, update_name) THEN cur
                           ELSE Append(cur, update_name)),
            update_name, Tail(deps))

\* a record keyed by the name the zip will have in _installed_
update_dependencies_as_installed(data, update_name, deps) ==
  LET key == IF update_name \in DOMAIN inst
             THEN Append(update_name,
                         CHOOSE i \in 1..(Cardinality(DOMAIN inst) + 1) :
                           /\ Append(update_name, i) \notin DOMAIN inst
                           /\ \A j \in 1..(i - 1) : Append(update_name, j) \in DOMAIN inst)
             ELSE update_name
  IN [dependencies |-> Put(data.dependencies, key, deps),
      dependents |-> add_dependents(data.dependents, key, deps)]

\* a record that writes the entry of update_name and leaves the reverse
\* index as it is
update_dependencies_forward_only(data, update_name, deps) ==
  [dependencies |-> Put(data.dependencies, update_name, deps),
   dependents |-> data.dependents]

\* update_dependencies on the loaded dependency_data
update_dependencies(data, update_name, deps) ==
  [dependencies |-> Put(data.dependencies, update_name, deps),
   dependents |-> add_dependents(data.dependents, update_name, deps)]

load_dependencies == [dependencies |-> dependencies, dependents |-> dependents]

get_dependents(update_name) ==
  IF update_name \in DOMAIN dependents THEN dependents[update_name] ELSE <<>>

get_dependencies(update_name) ==
  IF update_name \in DOMAIN dependencies THEN dependencies[update_name] ELSE <<>>

\* check_unused_dependencies, with the installed listing as a set of names
check_unused_dependencies(removed_update, installed_updates) ==
  SelectSeq(get_dependencies(removed_update),
            LAMBDA dep :
              /\ dep \in installed_updates
              /\ ~\E i \in 1..Len(get_dependents(dep)) :
                    /\ get_dependents(dep)[i] # removed_update
                    /\ get_dependents(dep)[i] \in installed_updates)

\* select_dependencies: what the prompt can return; cancelled stands for None
select_dependencies ==
  IF DOMAIN inst = {} THEN {[cancelled |-> FALSE, deps |-> <<>>]}
  ELSE {[cancelled |-> TRUE, deps |-> <<>>]} \cup
       {[cancelled |-> FALSE,
         deps |-> [i \in 1..Len(selected_indices) |-> l[selected_indices[i]][1]]] :
          l \in get_installed_updates,
          selected_indices \in ParsedSelections(Cardinality(DOMAIN inst))}

(***************************************************************************)
(* Lifecycle orchestrator                                                  *)
(***************************************************************************)
TheBuckets == [root |-> root, inst |-> inst, unin |-> unin]

\* lines 572-577: the first name of _installed_ that is free
installed_name(b, zip_name) ==
  IF zip_name \in DOMAIN b.inst
  THEN Append(zip_name,
              CHOOSE i \in 1..(Cardinality(DOMAIN b.inst) + 1) :
                /\ Append(zip_name, i) \notin DOMAIN b.inst
                /\ \A j \in 1..(i - 1) : Append(zip_name, j) \in DOMAIN b.inst)
  ELSE zip_name

\* a move onto the name as it is, with no suffix
move_to_installed_overwrite(b, zip_name, src) ==
  [root |-> IF src = "root" THEN Drop(b.root, zip_name) ELSE b.root,
   unin |-> IF src = "unin" THEN Drop(b.unin, zip_name) ELSE b.unin,
   inst |-> Put(b.inst, zip_name,
                IF src = "root" THEN b.root[zip_name] ELSE b.unin[zip_name])]

\* a copy in place of the move: the source stays where it was
move_to_installed_copy(b, zip_name, src) ==
  [root |-> b.root,
   unin |-> b.unin,
   inst |-> Put(b.inst, installed_name(b, zip_name),
                IF src = "root" THEN b.root[zip_name] ELSE b.unin[zip_name])]

\* lines 570-579: shutil.move(source_path, target_path)
move_to_installed(b, zip_name, src) ==
  LET z == IF src = "root" THEN b.root[zip_name] ELSE b.unin[zip_name]
  IN [root |-> IF src = "root" THEN Drop(b.root, zip_name) ELSE b.root,
      unin |-> IF src = "unin" THEN Drop(b.unin, zip_name) ELSE b.unin,
      inst |-> Put(b.inst, installed_name(b, zip_name), z)]

\* a removal that hands the zip back to the update root
move_to_update_root(b, zip_name) ==
  [root |-> Put(b.root, zip_name, b.inst[zip_name]),
   inst |-> Drop(b.inst, zip_name),
   unin |-> b.unin]

\* lines 486, 508, 376: shutil.move(zip_path, uninstalled_dir/zip_name); the
\* rename replaces a file of that name
move_to_uninstalled(b, zip_name) ==
  [root |-> b.root,
   inst |-> Drop(b.inst, zip_name),
   unin |-> Put(b.unin, zip_name, b.inst[zip_name])]

\* a test that counts the files that failed as well
files_processed(r) == Len(r.copied) + Len(r.overwritten) + Len(r.failed) > 0

\* a test that counts the files that were not found as well
files_examined(r) == Len(r.removed) + Len(r.not_found) > 0

\* lines 568 and 430: the zip moves when a file was copied or overwritten
files_installed(r) == Len(r.copied) > 0 \/ Len(r.overwritten) > 0

\* lines 484, 507 and 374: the zip moves when a file was removed
files_removed(r) == Len(r.removed) > 0

\* the paths analyze_update_zip tries to delete for the installed archives
\* named in names
RemovePaths(names) ==
  UNION {{join(primary_folder, namelist(inst[n])[i]) : i \in 1..Len(namelist(inst[n]))} :
           n \in names \cap DOMAIN inst}

\* the file operations that fail during one turn of a loop: none of them, or
\* every one of them (a read-only primary folder)
Failing(paths) == {{}, paths}

\* a loop that ends when a call of the delta engine failed as a whole
next_target_unless_failed ==
  IF /\ last'.op \in {"install", "remove"} /\ Len(last'.failed) = 1
     /\ last'.failed[1][2] \in {"File not found", "Directory not found", "Invalid zip file"}
  THEN todo' = <<>> /\ mode' = "idle"
  ELSE /\ todo' = Tail(todo)
       /\ mode' = IF Len(todo) = 1 THEN "idle" ELSE mode

\* lines 457, 545, 362 and 408: the for loop goes on with the next entry,
\* and the function returns after the last
next_target ==
  /\ todo' = Tail(todo)
  /\ mode' = IF Len(todo) = 1 THEN "idle" ELSE mode

NoInstall(zip_name) ==
  [op |-> "install", name |-> zip_name, src |-> "", cancelled |-> TRUE, deps |-> <<>>,
   copied |-> <<>>, overwritten |-> <<>>, failed |-> <<>>, moved |-> FALSE,
   target |-> zip_name]

\* a cancellation that comes after the target was recorded
install_cancelled_recorded ==
  /\ UNCHANGED <<fsvars, bktvars>>
  /\ \E g \in {update_dependencies(load_dependencies, todo[1][1], <<>>)} :
       dependencies' = g.dependencies /\ dependents' = g.dependents
  /\ last' = NoInstall(todo[1][1])

\* lines 552-554 and 413-415: select_dependencies returned None
install_cancelled ==
  /\ UNCHANGED <<fsvars, bktvars, depvars>>
  /\ last' = NoInstall(todo[1][1])

\* lines 546-584 and 408-446: one turn of the install loop
install_item ==
  LET zip_name == todo[1][1]
      src == todo[1][2]
      present == zip_name \in DOMAIN Bucket(src)
      z == IF present THEN Bucket(src)[zip_name] ELSE 0
  IN /\ \E sd \in select_dependencies :
          IF sd.cancelled
          THEN install_cancelled
          ELSE \E order \in walk(z),
                  cpfail \in Failing({join(primary_folder, e) : e \in extracted(z)}) :
                 \E g \in {update_dependencies(load_dependencies, zip_name, sd.deps)},
                    r \in {apply_update_zip(present, ZipPath(src, zip_name), z,
                                            primary_folder, TheFs, order, cpfail)} :
                 LET moved == files_installed(r)
                     b == IF moved THEN move_to_installed(TheBuckets, zip_name, src)
                          ELSE TheBuckets
                 IN /\ (moved /\ zip_name \in DOMAIN inst) => Len(zip_name) <= MaxSuffix
                    /\ dependencies' = g.dependencies /\ dependents' = g.dependents
                    /\ files' = r.files /\ dirs' = r.dirs
                    /\ root' = b.root /\ inst' = b.inst /\ unin' = b.unin
                    /\ last' = [op |-> "install", name |-> zip_name, src |-> src,
                                cancelled |-> FALSE, deps |-> sd.deps,
                                copied |-> r.copied, overwritten |-> r.overwritten,
                                failed |-> r.failed, moved |-> moved,
                                target |-> IF moved
                                           THEN installed_name(TheBuckets, zip_name)
                                           ELSE zip_name]
     /\ next_target
     /\ UNCHANGED <<primary_folder, runs>>

install_selected_updates == mode = "install" /\ todo # <<>> /\ install_item

install_all_updates == mode = "install_all" /\ todo # <<>> /\ install_item

\* a cascade that looks for the unused dependencies of every dependency it
\* removes, and removes those as well
RECURSIVE remove_unused_transitive(_, _, _)
remove_unused_transitive(st, unused_deps, rmfail) ==
  IF unused_deps = <<>> THEN st
  ELSE LET dep == Head(unused_deps) IN
       IF dep \in DOMAIN st.b.inst
       THEN LET r == analyze_update_zip(TRUE, ZipPath("inst", dep), st.b.inst[dep],
                                        primary_folder, st, rmfail)
                b2 == IF files_removed(r) THEN move_to_uninstalled(st.b, dep)
                      ELSE st.b
            IN remove_unused_transitive(
                 [files |-> r.files, dirs |-> r.dirs, b |-> b2,
                  cascaded |-> IF files_removed(r) THEN Append(st.cascaded, dep)
                               ELSE st.cascaded],
                 Tail(unused_deps) \o
                   (IF files_removed(r)
                    THEN check_unused_dependencies(dep, DOMAIN b2.inst) ELSE <<>>),
                 rmfail)
       ELSE remove_unused_transitive(st, Tail(unused_deps), rmfail)

\* lines 499-509: the unused dependencies, one after the other
RECURSIVE remove_unused(_, _, _)
remove_unused(st, unused_deps, rmfail) ==
  IF unused_deps = <<>> THEN st
  ELSE LET dep == Head(unused_deps) IN
       IF dep \in DOMAIN st.b.inst
       THEN LET r == analyze_update_zip(TRUE, ZipPath("inst", dep), st.b.inst[dep],
                                        primary_folder, st, rmfail)
            IN remove_unused(
                 [files |-> r.files, dirs |-> r.dirs,
                  b |-> IF files_removed(r) THEN move_to_uninstalled(st.b, dep)
                        ELSE st.b,
                  cascaded |-> IF files_removed(r) THEN Append(st.cascaded, dep)
                               ELSE st.cascaded],
                 Tail(unused_deps), rmfail)
       ELSE remove_unused(st, Tail(unused_deps), rmfail)

\* every recorded dependent, installed or not
recorded_dependents(zip_name) == get_dependents(zip_name)

\* lines 461-463: actual_dependents, the dependents that are installed
installed_dependents(zip_name) ==
  SelectSeq(get_dependents(zip_name), LAMBDA d : d \in DOMAIN inst)

NoRemove(zip_name) ==
  [op |-> "remove", name |-> zip_name, skipped |-> TRUE, asked |-> TRUE,
   removed |-> <<>>, not_found |-> <<>>, failed |-> <<>>, moved |-> FALSE,
   checked |-> FALSE, unused |-> <<>>, cascaded |-> <<>>]

\* the file system and the buckets, as the loops pass them on
TheState == [files |-> files, dirs |-> dirs, b |-> TheBuckets]

\* lines 474-509: the removal of zip_name once it goes ahead, on the file
\* system and the buckets st; removal is the answer to the prompt of line 495
remove_selected_result(st, zip_name, removal, rmfail) ==
  LET present == zip_name \in DOMAIN st.b.inst
      z == IF present THEN st.b.inst[zip_name] ELSE 0
      r == analyze_update_zip(present, ZipPath("inst", zip_name), z,
                              primary_folder, st, rmfail)
      moved == files_removed(r)
      b1 == IF moved THEN move_to_uninstalled(st.b, zip_name)
            ELSE st.b
      unused_deps == IF moved
                     THEN check_unused_dependencies(zip_name, DOMAIN b1.inst)
                     ELSE <<>>
      st1 == [files |-> r.files, dirs |-> r.dirs, b |-> b1, cascaded |-> <<>>]
  IN [r |-> r, moved |-> moved, unused_deps |-> unused_deps,
      st |-> IF unused_deps # <<>> /\ removal
             THEN remove_unused(st1, unused_deps, rmfail)
             ELSE st1]

\* lines 457-514: one turn of the remove loop, on the file system and the
\* buckets
remove_selected_item ==
  LET zip_name == todo[1][1]
      actual_dependents == installed_dependents(zip_name)
  IN /\ \E confirmation \in (IF actual_dependents # <<>> THEN BOOLEAN ELSE {TRUE}),
           removal \in BOOLEAN,
           rmfail \in Failing(RemovePaths({zip_name} \cup Range(get_dependencies(zip_name)))) :
          IF actual_dependents # <<>> /\ ~confirmation
          THEN /\ UNCHANGED <<files, dirs, bktvars>>
               /\ last' = NoRemove(zip_name)
          ELSE \E x \in {remove_selected_result(TheState, zip_name, removal, rmfail)} :
                  /\ files' = x.st.files /\ dirs' = x.st.dirs
                  /\ root' = x.st.b.root /\ inst' = x.st.b.inst /\ unin' = x.st.b.unin
                  /\ last' = [op |-> "remove", name |-> zip_name, skipped |-> FALSE,
                              asked |-> actual_dependents # <<>>,
                              removed |-> x.r.removed, not_found |-> x.r.not_found,
                              failed |-> x.r.failed, moved |-> x.moved,
                              checked |-> x.moved,
                              unused |-> x.unused_deps, cascaded |-> x.st.cascaded]
     /\ next_target
     /\ UNCHANGED <<primary_folder, runs>>

\* a removal that deletes the removed update from the graph
remove_selected_forgets ==
  /\ mode = "remove" /\ todo # <<>>
  /\ remove_selected_item
  /\ dependencies' = Drop(dependencies, todo[1][1])
  /\ dependents' = dependents

\* remove_selected_updates never saves dependencies.json
remove_selected_updates ==
  /\ mode = "remove" /\ todo # <<>>
  /\ remove_selected_item
  /\ UNCHANGED depvars

\* lines 365-381: the removal of zip_name by remove-all, on the file system
\* and the buckets st
remove_all_result(st, zip_name, rmfail) ==
  LET present == zip_name \in DOMAIN st.b.inst
      z == IF present THEN st.b.inst[zip_name] ELSE 0
      r == analyze_update_zip(present, ZipPath("inst", zip_name), z,
                              primary_folder, st, rmfail)
      moved == files_removed(r)
  IN [r |-> r, moved |-> moved,
      st |-> [files |-> r.files, dirs |-> r.dirs,
              b |-> IF moved THEN move_to_uninstalled(st.b, zip_name) ELSE st.b]]

\* lines 362-381: one turn of the remove-all loop, on the file system and the
\* buckets
remove_all_item ==
  LET zip_name == todo[1][1]
  IN /\ \E rmfail \in Failing(RemovePaths({zip_name})) :
          \E x \in {remove_all_result(TheState, zip_name, rmfail)} :
             /\ files' = x.st.files /\ dirs' = x.st.dirs
             /\ root' = x.st.b.root /\ inst' = x.st.b.inst /\ unin' = x.st.b.unin
             /\ last' = [op |-> "remove", name |-> zip_name, skipped |-> FALSE,
                         asked |-> FALSE,
                         removed |-> x.r.removed, not_found |-> x.r.not_found,
                         failed |-> x.r.failed, moved |-> x.moved, checked |-> FALSE,
                         unused |-> <<>>, cascaded |-> <<>>]
     /\ next_target
     /\ UNCHANGED <<primary_folder, runs>>

\* remove_all_updates never saves dependencies.json
remove_all_updates ==
  /\ mode = "remove_all" /\ todo # <<>>
  /\ remove_all_item
  /\ UNCHANGED depvars

\* main, mode install: the listing, then install-all behind its
\* confirmation (lines 391-402), or the selected entries (line 748)
main_install ==
  /\ mode = "idle" /\ runs < MaxRuns /\ exists(primary_folder, TheFs)
  /\ get_available_updates # {<<>>}
  /\ \/ \E confirmation \in BOOLEAN :
          IF confirmation
          THEN mode' = "install_all" /\ todo' \in get_available_updates
          ELSE mode' = "idle" /\ todo' = <<>>
     \/ /\ mode' = "install"
        /\ todo' \in {Pick(zip_files, selected_indices) :
                        zip_files \in get_available_updates,
                        selected_indices \in ParsedSelections(
                          Cardinality(DOMAIN root) + Cardinality(DOMAIN unin))}
                     \ {<<>>}
  /\ runs' = runs + 1
  /\ last' = [op |-> "main"]
  /\ UNCHANGED <<fsvars, bktvars, depvars>>

\* main, mode remove: remove-all behind its confirmation (lines 345-356), or
\* the selected entries
main_remove ==
  /\ mode = "idle" /\ runs < MaxRuns /\ exists(primary_folder, TheFs)
  /\ get_installed_updates # {<<>>}
  /\ \/ \E confirmation \in BOOLEAN :
          IF confirmation
          THEN mode' = "remove_all" /\ todo' \in get_installed_updates
          ELSE mode' = "idle" /\ todo' = <<>>
     \/ /\ mode' = "remove"
        /\ todo' \in {Pick(zip_files, selected_indices) :
                        zip_files \in get_installed_updates,
                        selected_indices \in ParsedSelections(Cardinality(DOMAIN inst))}
                     \ {<<>>}
  /\ runs' = runs + 1
  /\ last' = [op |-> "main"]
  /\ UNCHANGED <<fsvars, bktvars, depvars>>

\* the update directory and the primary folder when the program first runs:
\* the primary folder is empty and a file b lies next to it; archive 1 is
\* p.zip and archive 3 is r.zip in the update root; archive 2 is q.zip in the
\* update root or a second p.zip, left in _uninstalled_
Init ==
  /\ files = {<<"b">>}
  /\ dirs = {<<>>, <<"P">>}
  /\ primary_folder = <<"P">>
  /\ \/ /\ root = (<<"p">> :> 1) @@ (<<"q">> :> 2) @@ (<<"r">> :> 3)
        /\ unin = NoArchives
     \/ /\ root = (<<"p">> :> 1) @@ (<<"r">> :> 3)
        /\ unin = (<<"p">> :> 2)
  /\ inst = NoArchives
  /\ dependencies = NoGraph /\ dependents = NoGraph
  /\ mode = "idle" /\ todo = <<>> /\ runs = 0
  /\ last = [op |-> "init"]

Next ==
  \/ main_install
  \/ main_remove
  \/ install_selected_updates
  \/ install_all_updates
  \/ remove_selected_updates
  \/ remove_all_updates

Spec == Init /\ [][Next]_vars

(***************************************************************************)
(* The dependency graph store on its own: update_dependencies called with  *)
(* any name and any list of names, duplicates included.                    *)
(***************************************************************************)
\* longest dependency list passed to update_dependencies
MaxDeps == 2

StoreNames == {<<"p">>, <<"q">>}

StoreInit ==
  /\ files = {} /\ dirs = {<<>>, <<"P">>} /\ primary_folder = <<"P">>
  /\ root = NoArchives /\ inst = NoArchives /\ unin = NoArchives
  /\ dependencies = NoGraph /\ dependents = NoGraph
  /\ mode = "store" /\ todo = <<>> /\ runs = 0
  /\ last = [op |-> "init"]

\* update_dependencies(updates_dir, update_name, deps)
StoreRecord ==
  /\ mode = "store" /\ runs < MaxRuns
  /\ \E update_name \in StoreNames,
        deps \in UNION {[1..k -> StoreNames] : k \in 0..MaxDeps} :
       \E g \in {update_dependencies(load_dependencies, update_name, deps)} :
          /\ dependencies' = g.dependencies /\ dependents' = g.dependents
          /\ last' = [op |-> "record", name |-> update_name, deps |-> deps,
                      again |-> /\ last.op = "record"
                                /\ last.name = update_name /\ last.deps = deps]
  /\ runs' = runs + 1
  /\ UNCHANGED <<fsvars, bktvars, mode, todo>>

StoreNext == StoreRecord

SpecStore == StoreInit /\ [][StoreNext]_vars

(***************************************************************************)
(* Properties                                                              *)
(***************************************************************************)
GraphNames ==
  DOMAIN dependencies \cup DOMAIN dependents
    \cup UNION {Range(dependencies[n]) : n \in DOMAIN dependencies}
    \cup UNION {Range(dependents[n]) : n \in DOMAIN dependents}

InstallTurn == mode \in {"install", "install_all"} /\ todo # <<>>

RemoveTurn == mode \in {"remove", "remove_all"} /\ todo # <<>>

\* the bucket that holds archive z
Loc(z) ==
  IF \E n \in DOMAIN root : root[n] = z THEN "root"
  ELSE IF \E n \in DOMAIN inst : inst[n] = z THEN "inst"
  ELSE IF \E n \in DOMAIN unin : unin[n] = z THEN "unin"
  ELSE "none"

\* the places (bucket, name) at which archive z is stored
Places(z) ==
  {<<"root", n>> : n \in {m \in DOMAIN root : root[m] = z}}
    \cup {<<"inst", n>> : n \in {m \in DOMAIN inst : inst[m] = z}}
    \cup {<<"unin", n>> : n \in {m \in DOMAIN unin : unin[m] = z}}

\* C1: the two indexes agree: B is in dependents[A] exactly when A is in
\* dependencies[B], after any sequence of installs.
C1_IndexesConsistent ==
  \A A \in GraphNames, B \in GraphNames :
    Contains(get_dependents(A), B) <=> Contains(get_dependencies(B), A)

\* C2: when an update X was removed, check_unused_dependencies returned
\* exactly the dependencies d of X that are installed and are in the
\* dependency list of no other installed update.
C2_UnusedIffNoOtherInstalled ==
  (last.op = "remove" /\ last.checked /\ last.cascaded = <<>>)
    => Range(last.unused) =
         {d \in Range(get_dependencies(last.name)) :
            /\ d \in DOMAIN inst
            /\ ~\E Y \in (DOMAIN inst) \ {last.name} :
                  Contains(get_dependencies(Y), d)}

\* C3: every update is listed exactly once among the dependents of each of
\* its recorded dependencies, however often it was recorded and whether or
\* not its dependency list repeats a name.
C3_DependentsOnce ==
  \A n \in DOMAIN dependencies :
    \A d \in Range(dependencies[n]) : Count(get_dependents(d), n) = 1

\* C3 witness: the same record was made twice, with a list that names one
\* dependency twice.
C3_Witness ==
  /\ last.op = "record" /\ last.again
  /\ Len(last.deps) = 2 /\ last.deps[1] = last.deps[2]
  /\ Count(get_dependents(last.deps[1]), last.name) = 1

\* C4: an install of a zip whose name is taken in _installed_ leaves every
\* installed zip under its name and stores the new one under the first free
\* name zip_1, zip_2, ...
C4_CollisionKeepsInstalled ==
  [][(InstallTurn /\ todo[1][1] \in DOMAIN inst /\ TheBuckets' # TheBuckets)
       => /\ \A n \in DOMAIN inst : n \in DOMAIN inst' /\ inst'[n] = inst[n]
          /\ \E i \in 1..(Cardinality(DOMAIN inst) + 1) :
               /\ Append(todo[1][1], i) \notin DOMAIN inst
               /\ \A j \in 1..(i - 1) : Append(todo[1][1], j) \in DOMAIN inst
               /\ DOMAIN inst' = (DOMAIN inst) \cup {Append(todo[1][1], i)}
               /\ inst'[Append(todo[1][1], i)] = Bucket(todo[1][2])[todo[1][1]]]_vars

\* C4 witness: p.zip was installed next to an installed p.zip and is p_1.zip.
C4_Witness ==
  /\ last.op = "install" /\ last.moved /\ last.target = Append(last.name, 1)
  /\ last.name \in DOMAIN inst /\ last.target \in DOMAIN inst
  /\ inst[last.name] # inst[last.target]

\* C5: a turn of an install loop changes the buckets only if apply_update_zip
\* returned a copied or an overwritten file.
C5_InstallMovesOnlyWithFiles ==
  [][(InstallTurn /\ TheBuckets' # TheBuckets)
       => /\ last'.op = "install"
          /\ Len(last'.copied) + Len(last'.overwritten) > 0]_vars

\* C5 witness: an install that transferred no file, after which the zip is
\* where it was, and the primary folder exists.
C5_Witness ==
  /\ last.op = "install" /\ ~last.cancelled
  /\ last.copied = <<>> /\ last.overwritten = <<>> /\ last.failed # <<>>
  /\ last.name \in DOMAIN Bucket(last.src)
  /\ last.name \notin DOMAIN inst

\* C6: a turn of a remove loop changes the buckets only if analyze_update_zip
\* removed a file of the target, and it checks for unused dependencies only
\* then.
C6_RemoveMovesOnlyWithFiles ==
  [][(RemoveTurn /\ (TheBuckets' # TheBuckets \/ last'.checked))
       => /\ last'.op = "remove"
          /\ Len(last'.removed) > 0]_vars

\* C6 witness: a removal that removed nothing, after which the zip is still
\* installed.
C6_Witness ==
  /\ last.op = "remove" /\ ~last.skipped
  /\ last.removed = <<>> /\ last.not_found # <<>>
  /\ last.name \in DOMAIN inst /\ ~last.checked

\* C7: an archive changes bucket only from the update root or _uninstalled_
\* to _installed_, in a turn of an install loop, and from _installed_ to
\* _uninstalled_, in a turn of a remove loop; every zip of _uninstalled_ is
\* in the listing of the available updates.
C7_Lifecycle ==
  /\ [][\A z \in Archives :
          (Loc(z)' # Loc(z) /\ Loc(z)' # "none")
            => \/ Loc(z) \in {"root", "unin"} /\ Loc(z)' = "inst" /\ InstallTurn
               \/ Loc(z) = "inst" /\ Loc(z)' = "unin" /\ RemoveTurn]_vars
  /\ [](\A n \in DOMAIN unin : \A l \in get_available_updates :
          Contains(l, <<n, "unin">>))

\* C7 witness: archive 1, which began in the update root, is installed again
\* from _uninstalled_.
C7_Witness ==
  /\ last.op = "install" /\ last.src = "unin" /\ last.moved
  /\ last.target \in DOMAIN inst /\ inst[last.target] = 1

\* C8: no archive is stored at two places.
C8_OnePlace == \A z \in Archives : Cardinality(Places(z)) <= 1

\* C8 witness: archive 1 was moved into _installed_ and from there into
\* _uninstalled_, and is stored there only.
C8_Witness == Places(1) = {<<"unin", <<"p">>>>} /\ last.op = "remove" /\ last.moved

\* C9: a turn of a remove loop leaves dependencies and dependents as they
\* were.
C9_RemoveKeepsGraph ==
  [][RemoveTurn => dependencies' = dependencies /\ dependents' = dependents]_vars

\* C9 witness: an update with recorded dependencies was removed, one of its
\* dependencies with it, and its entry is still in the graph.
C9_Witness ==
  /\ last.op = "remove" /\ last.moved /\ last.cascaded # <<>>
  /\ last.name \notin DOMAIN inst
  /\ last.name \in DOMAIN dependencies /\ dependencies[last.name] # <<>>

\* the files of the primary folder "P"
InPrimary(fset) == {f \in fset : Len(f) >= 1 /\ f[1] = "P"}

\* C10: an archive applied to the primary folder and then removed from it,
\* no operation failing, leaves in the folder the files it held before
\* except those at the paths the archive was applied to.
C10_ApplyThenReverse ==
  (/\ last.op = "reverse" /\ last.applied.op = "apply"
   /\ last.failed = <<>> /\ last.applied.failed = <<>>)
    => InPrimary(files) =
         InPrimary(last.applied.before.files)
           \ {<<"P">> \o e : e \in extracted(root[<<"p">>])}

\* p is d or lies below d
Below(p, d) == Len(p) >= Len(d) /\ SubSeq(p, 1, Len(d)) = d

\* an os.rmdir of the last call of analyze_update_zip raised
RmdirFailed ==
  \E i \in 1..Len(last.failed) : last.failed[i][2] = "rmdir"

\* C11: when no os.rmdir raises, analyze_update_zip deletes a directory only
\* if a file it deleted lay below it, leaves no empty directory above a
\* deleted file other than the primary folder, and never deletes the primary
\* folder, whether it was passed as "P" or as "P/".
C11_PruneKeepsPrimary ==
  (last.op = "reverse" /\ ~RmdirFailed)
    => /\ <<"P">> \in dirs
       /\ \A d \in last.before.dirs \ dirs :
            \E f \in last.before.files \ files : Below(f, d) /\ f # d
       /\ \A d \in dirs \ {<<>>, <<"P">>} :
            (\E f \in last.before.files \ files : Below(f, d))
              => listdir(d, TheFs) # {}

\* C11, without the primary folder: what holds of the directories below it
C11_PruneBelowPrimary ==
  (last.op = "reverse" /\ ~RmdirFailed)
    => /\ \A d \in (last.before.dirs \ dirs) \ {<<"P">>} :
            \E f \in last.before.files \ files : Below(f, d) /\ f # d
       /\ \A d \in dirs \ {<<>>, <<"P">>} :
            (\E f \in last.before.files \ files : Below(f, d))
              => listdir(d, TheFs) # {}

\* C12: the cascade of a removal is one hop.  In a turn of the remove loop
\* the zips that leave _installed_ are the target and unused dependencies of
\* the target as check_unused_dependencies listed them; each dependency the
\* cascade removed is one of those and is in _uninstalled_ afterwards; no
\* dependency of a removed dependency leaves _installed_ on that account.
C12_CascadeOneHop ==
  [][(RemoveTurn /\ mode = "remove")
       => /\ (DOMAIN inst) \ (DOMAIN inst')
               \subseteq {todo[1][1]} \cup Range(last'.unused)
          /\ \A d \in Range(last'.cascaded) :
               /\ d \in Range(last'.unused)
               /\ d \in DOMAIN inst /\ d \notin DOMAIN inst'
               /\ d \in DOMAIN unin' /\ unin'[d] = inst[d]
               /\ \A c \in Range(get_dependencies(d)) :
                    (c \in DOMAIN inst /\ c \notin {todo[1][1]} \cup Range(last'.unused))
                      => c \in DOMAIN inst']_vars

\* C12 witness: a chain A -> B -> C, all three installed and C needed by B
\* only; A was removed, the cascade removed B, and C is still installed.
C12_Witness ==
  /\ last.op = "remove" /\ last.moved /\ Len(last.cascaded) = 1
  /\ get_dependencies(last.name) = last.cascaded
  /\ LET B == last.cascaded[1] IN
       /\ B # last.name /\ B \in DOMAIN unin /\ B \notin DOMAIN inst
       /\ Len(get_dependencies(B)) = 1
       /\ LET C == get_dependencies(B)[1] IN
            /\ C \notin {last.name, B}
            /\ get_dependents(C) = <<B>>
            /\ C \in DOMAIN inst

\* C13: a turn of the remove loop asks for a confirmation exactly when a
\* recorded dependent of the target is installed; when the answer is no, the
\* file system, the buckets and the graph stay as they were and the loop goes
\* on with the next target.
C13_ConfirmWhenDependents ==
  [][(RemoveTurn /\ mode = "remove")
       => /\ last'.op = "remove"
          /\ last'.asked <=> (Range(get_dependents(todo[1][1])) \cap DOMAIN inst # {})
          /\ last'.skipped
               => /\ last'.asked
                  /\ files' = files /\ dirs' = dirs
                  /\ TheBuckets' = TheBuckets
                  /\ dependencies' = dependencies /\ dependents' = dependents
                  /\ todo' = Tail(todo)
                  /\ mode' = IF Tail(todo) = <<>> THEN "idle" ELSE "remove"]_vars

\* C13 witness: the removal of a target with an installed dependent was
\* declined, the target is still installed and another target is waiting.
C13_Witness ==
  /\ last.op = "remove" /\ last.skipped /\ last.asked
  /\ last.name \in DOMAIN inst
  /\ Range(get_dependents(last.name)) \cap DOMAIN inst # {}
  /\ mode = "remove" /\ todo # <<>>

\* C14: a turn of an install loop in which the dependency prompt was
\* cancelled changes neither the graph, nor a file or directory, nor a
\* bucket, and the loop goes on with the next target.
C14_CancelSkipsTarget ==
  [][(InstallTurn /\ last'.op = "install" /\ last'.cancelled)
       => /\ dependencies' = dependencies /\ dependents' = dependents
          /\ files' = files /\ dirs' = dirs
          /\ TheBuckets' = TheBuckets
          /\ todo' = Tail(todo)
          /\ mode' = IF Tail(todo) = <<>> THEN "idle" ELSE mode]_vars

\* C14 witness: the install of a target that was never recorded was
\* cancelled; it is still where it was, it has no entry in the graph, and
\* another target of the batch is waiting.
C14_Witness ==
  /\ last.op = "install" /\ last.cancelled
  /\ last.name \notin DOMAIN dependencies
  /\ last.name \in DOMAIN root \cup DOMAIN unin
  /\ mode \in {"install", "install_all"} /\ todo # <<>>

(***************************************************************************)
(* The dependency graph display on its own: display_dependency_graph and   *)
(* print_dependencies on any graph over three names, self-loops and cycles *)
(* included.  The recursion of print_dependencies is the stack todo: a     *)
(* frame holds the list being printed, the index of the entry printed next *)
(* and the visited list of the call.  The loops of display_dependency_graph*)
(* over the updates are the bottom frame.                                  *)
(***************************************************************************)
\* most frames the stack may hold
MaxDepth == 5

Nodes == {<<"p">>, <<"q">>, <<"r">>}

\* sorted(...): the names in ascending order
NodeOrder == << <<"p">>, <<"q">>, <<"r">> >>

\* the dependency lists a graph may hold: the names of a list are distinct
NodeLists ==
  {l \in UNION {[1..k -> Nodes] : k \in 0..Cardinality(Nodes)} :
     \A i, j \in 1..Len(l) : l[i] = l[j] => i = j}

\* a visited test that finds nothing
on_path_never(dep, visited) == FALSE

\* line 663: dep in visited
on_path(dep, visited) == Contains(visited, dep)

\* lines 626-648: the updates display_dependency_graph prints at the top
\* level, the installed ones and then the others that have dependencies
graph_roots ==
  SelectSeq(NodeOrder, LAMBDA u : u \in DOMAIN dependencies /\ u \in DOMAIN inst)
    \o SelectSeq(NodeOrder, LAMBDA u : /\ u \in DOMAIN dependencies
                                       /\ u \notin DOMAIN inst
                                       /\ dependencies[u] # <<>>)

GraphInit ==
  /\ files = {} /\ dirs = {<<>>, <<"P">>} /\ primary_folder = <<"P">>
  /\ root = NoArchives /\ unin = NoArchives
  /\ \E S \in {{}, {<<"p">>}, Nodes} : inst = [n \in S |-> 1]
  /\ \E K \in SUBSET Nodes : dependencies \in [K -> NodeLists]
  /\ dependents = NoGraph
  /\ mode = "graph" /\ todo = <<>> /\ runs = 0
  /\ last = [op |-> "init"]

\* display_dependency_graph, lines 612-623
display_dependency_graph ==
  /\ mode = "graph"
  /\ IF DOMAIN dependencies = {}
     THEN mode' = "graph_done" /\ todo' = <<>>
     ELSE /\ mode' = "graph_print"
          /\ todo' = << [deps |-> graph_roots, i |-> 1, visited |-> <<>>] >>
  /\ last' = [op |-> "graph"]
  /\ UNCHANGED <<fsvars, bktvars, depvars, runs>>

\* print_dependencies, lines 655-673: one entry of the list of the running
\* call; an entry of the bottom frame is an update of lines 626-648
print_dependencies ==
  /\ mode = "graph_print" /\ todo # <<>>
  /\ LET f == todo[Len(todo)] IN
       /\ f.i <= Len(f.deps)
       /\ LET dep == f.deps[f.i]
              circular == on_path(dep, f.visited)
              sub_deps == get_dependencies(dep)
              expanded == ~circular /\ sub_deps # <<>>
              rest == [todo EXCEPT ![Len(todo)].i = f.i + 1]
          IN /\ expanded => Len(todo) < MaxDepth
             /\ todo' = IF expanded
                        THEN Append(rest, [deps |-> sub_deps, i |-> 1,
                                           visited |-> Append(f.visited, dep)])
                        ELSE rest
             /\ last' = [op |-> "print", dep |-> dep, visited |-> f.visited,
                         circular |-> circular, expanded |-> expanded]
  /\ UNCHANGED <<fsvars, bktvars, depvars, mode, runs>>

\* the list of the running call is at its end: the call returns
print_dependencies_return ==
  /\ mode = "graph_print" /\ todo # <<>>
  /\ todo[Len(todo)].i > Len(todo[Len(todo)].deps)
  /\ todo' = SubSeq(todo, 1, Len(todo) - 1)
  /\ mode' = IF Len(todo) = 1 THEN "graph_done" ELSE mode
  /\ last' = [op |-> "return"]
  /\ UNCHANGED <<fsvars, bktvars, depvars, runs>>

GraphNext ==
  \/ display_dependency_graph
  \/ print_dependencies
  \/ print_dependencies_return

\* the display is a sequential program: it takes its next step
SpecGraph == GraphInit /\ [][GraphNext]_vars /\ WF_vars(GraphNext)

\* C15: the display of the graph ends, whatever the graph: a dependency
\* that is on the visited list of its call is printed as circular and not
\* expanded, so no name is twice on a visited list and the recursion is
\* never deeper than the number of names.
C15_RenderTerminates ==
  /\ [](/\ \A k \in 1..Len(todo) :
            \A i, j \in 1..Len(todo[k].visited) :
              todo[k].visited[i] = todo[k].visited[j] => i = j
        /\ Len(todo) <= Cardinality(Nodes) + 1
        /\ last.op = "print"
             => /\ last.circular <=> Contains(last.visited, last.dep)
                /\ last.circular => ~last.expanded)
  /\ <>(mode = "graph_done")

\* C15 witness: the display of a graph with the cycle p -> q -> r -> p and
\* the self-loop q -> q has ended, its last line a circular dependency.
C15_Witness ==
  /\ mode = "graph_done"
  /\ DOMAIN dependencies = Nodes
  /\ dependencies[<<"p">>] = << <<"q">> >>
  /\ dependencies[<<"q">>] = << <<"q">>, <<"r">> >>
  /\ dependencies[<<"r">>] = << <<"p">> >>
  /\ DOMAIN inst = Nodes

\* the last call of the delta engine found its archive, could read it, and
\* found the primary folder
DeltaStarted ==
  /\ <<"p">> \in DOMAIN Bucket(last.src)
  /\ ~bad_zip(Bucket(last.src)[<<"p">>])
  /\ exists(primary_folder, last.before)

\* C16: when the archive and the primary folder are there, apply_update_zip
\* accounts for every file of the archive: each is in copied or in
\* overwritten, or its failure is an entry of failed, so the three lists
\* hold at least as many entries as the archive has files.
C16_ApplyProcessesEveryEntry ==
  (last.op = "apply" /\ DeltaStarted)
    => Len(last.copied) + Len(last.overwritten) + Len(last.failed)
         >= Cardinality(extracted(root[<<"p">>]))

\* C16, for the failures of shutil.copy2 alone: when no os.makedirs failed,
\* every file of the archive is in copied, in overwritten or in failed
\* under its own path.
C16_CopyFailuresKeepGoing ==
  (/\ last.op = "apply" /\ DeltaStarted
   /\ \A i \in 1..Len(last.failed) : last.failed[i][2] = "copy")
    => \A e \in extracted(root[<<"p">>]) :
         \/ Contains(last.copied, join(primary_folder, e))
         \/ Contains(last.overwritten, join(primary_folder, e))
         \/ Contains(last.failed, <<join(primary_folder, e), "copy">>)

\* C17: apply_update_zip and analyze_update_zip called on a path that holds
\* no file, on a file that is not a readable zip archive, or with a primary
\* folder that does not exist return two empty lists and one failure, and
\* change no file and no directory.
C17_FailFast ==
  (last.op \in {"apply", "reverse"} /\ ~DeltaStarted)
    => /\ Len(last.failed) = 1
       /\ IF last.op = "apply"
          THEN last.copied = <<>> /\ last.overwritten = <<>>
          ELSE last.removed = <<>> /\ last.not_found = <<>>
       /\ files = last.before.files /\ dirs = last.before.dirs

\* C17 witness: the reversal of a file that is not a zip archive, in a
\* primary folder that holds files, after the same file failed to apply.
C17_Witness ==
  /\ last.op = "reverse" /\ last.src = "root" /\ bad_zip(root[<<"p">>])
  /\ last.applied.op = "apply" /\ Len(last.applied.failed) = 1
  /\ exists(primary_folder, TheFs)
  /\ <<"P", "t", "a">> \in files
  /\ last.failed = << <<ZipPath("root", <<"p">>), "Invalid zip file">> >>

\* the last turn's call of the delta engine failed as a whole: the archive
\* was not there or could not be read, or the primary folder was not there
PackageFailed ==
  /\ last.op \in {"install", "remove"}
  /\ Len(last.failed) = 1
  /\ last.failed[1][2] \in {"File not found", "Directory not found", "Invalid zip file"}

\* C18: a turn of an install or remove loop whose target failed as a whole
\* changes no bucket, and the loop goes on with the next target.
C18_PackageFailureSkipsTarget ==
  [][((InstallTurn \/ RemoveTurn) /\ PackageFailed')
       => /\ TheBuckets' = TheBuckets
          /\ todo' = Tail(todo)
          /\ mode' = IF Tail(todo) = <<>> THEN "idle" ELSE mode]_vars

\* C18 witness: a target of a remove batch was not in _installed_ any more,
\* the cascade of an earlier target having moved it to _uninstalled_; it is
\* where the cascade left it and a later target of the batch is waiting.
C18_Witness ==
  /\ PackageFailed /\ last.op = "remove"
  /\ last.failed[1] = <<ZipPath("inst", last.name), "File not found">>
  /\ last.name \in DOMAIN unin /\ last.name \notin DOMAIN inst
  /\ mode = "remove" /\ todo # <<>>

\* what is left when remove has removed the zips of zip_files one after the
\* other, no file operation failing, every removal going ahead and the
\* prompt for the unused dependencies answered by removal
RECURSIVE RemoveEach(_, _, _)
RemoveEach(st, zip_files, removal) ==
  IF zip_files = <<>> THEN [files |-> st.files, dirs |-> st.dirs, b |-> st.b]
  ELSE RemoveEach(remove_selected_result(st, zip_files[1][1], removal, {}).st,
                  Tail(zip_files), removal)

\* what is left when remove-all has removed the zips of zip_files, no file
\* operation failing
RECURSIVE RemoveAll(_, _)
RemoveAll(st, zip_files) ==
  IF zip_files = <<>> THEN st
  ELSE RemoveAll(remove_all_result(st, zip_files[1][1], {}).st, Tail(zip_files))

\* remove-all was confirmed and is about to take the first zip of its listing
RemoveAllStarts == mode = "remove_all" /\ last.op = "main"

\* C19: install-all and remove-all do for each zip of the listing what
\* install and remove do for it, in the order of the listing.  A turn of
\* install-all is a turn of the install loop; remove-all leaves the files,
\* the directories and the buckets that remove leaves when it is given the
\* same zips in the same order, the one confirmation of the batch standing
\* for the answers to its prompts, and it leaves the graph as it was; and
\* a batch that was not confirmed changes nothing.
C19_AllAsPerItem ==
  /\ [][/\ (mode = "install_all" /\ todo # <<>>) => install_item
        /\ (mode = "remove_all" /\ todo # <<>>)
             => dependencies' = dependencies /\ dependents' = dependents
        /\ (mode = "idle" /\ mode' = "idle")
             => /\ files' = files /\ dirs' = dirs /\ TheBuckets' = TheBuckets
                /\ dependencies' = dependencies /\ dependents' = dependents]_vars
  /\ [](RemoveAllStarts => RemoveAll(TheState, todo) = RemoveEach(TheState, todo, TRUE))

\* C19, with the unused dependencies kept: remove-all leaves what remove
\* leaves when it is given the same zips in the same order and the prompt
\* for the unused dependencies is answered no.
C19_RemoveAllWithoutCascade ==
  RemoveAllStarts => RemoveAll(TheState, todo) = RemoveEach(TheState, todo, FALSE)

\* C20: an install that stores its zip under a suffixed name, the name being
\* taken in _installed_, writes one entry of dependencies, keyed by the name
\* the zip had before: the entry of that name holds the dependencies chosen
\* for this install, and no entry is added or changed under the suffixed
\* name or any other.
C20_GraphKeyIsPreSuffixName ==
  [][(InstallTurn /\ last'.op = "install" /\ last'.moved /\ last'.target # last'.name)
       => /\ last'.name = todo[1][1]
          /\ last'.target \in (DOMAIN inst') \ (DOMAIN inst)
          /\ DOMAIN dependencies' = (DOMAIN dependencies) \cup {last'.name}
          /\ dependencies'[last'.name] = last'.deps
          /\ \A k \in (DOMAIN dependencies) \ {last'.name} :
               dependencies'[k] = dependencies[k]]_vars

\* C20 witness: p.zip was installed as p_1.zip with a dependency; the graph
\* has the entry p.zip, which holds that dependency, and no entry p_1.zip.
C20_Witness ==
  /\ last.op = "install" /\ last.moved /\ last.target = Append(last.name, 1)
  /\ last.target \in DOMAIN inst
  /\ last.deps # <<>>
  /\ last.name \in DOMAIN dependencies /\ dependencies[last.name] = last.deps
  /\ last.target \notin DOMAIN dependencies

\* C21: no move destroys an archive.  The update root, _installed_ and
\* _uninstalled_ hold as many zips as at the start, and every archive that
\* was there at the start is still stored in one of them.
C21_NoArchiveLost ==
  /\ Cardinality(DOMAIN root) + Cardinality(DOMAIN inst) + Cardinality(DOMAIN unin)
       = Cardinality(Archives)
  /\ \A z \in Archives : Places(z) # {}

\* C21, for the moves into _installed_: a turn of an install loop keeps the
\* number of zips and every archive.
C21_InstallKeepsArchives ==
  [][InstallTurn
       => /\ Cardinality(DOMAIN root') + Cardinality(DOMAIN inst') + Cardinality(DOMAIN unin')
               = Cardinality(DOMAIN root) + Cardinality(DOMAIN inst) + Cardinality(DOMAIN unin)
          /\ \A z \in Archives : Places(z) # {} => Places(z)' # {}]_vars

\* C22: an install records before it applies.  A turn of an install loop
\* that was not cancelled and moved no zip, apply_update_zip having copied
\* and overwritten nothing, has written the chosen list as the entry of the
\* target and has the target among the dependents of every name of the
\* list, and the zip is where it was.
C22_RecordedBeforeApplied ==
  [][(InstallTurn /\ last'.op = "install" /\ ~last'.cancelled /\ ~last'.moved)
       => /\ last'.copied = <<>> /\ last'.overwritten = <<>>
          /\ last'.name \in DOMAIN dependencies'
          /\ dependencies'[last'.name] = last'.deps
          /\ \A d \in Range(last'.deps) :
               d \in DOMAIN dependents' /\ Contains(dependents'[d], last'.name)
          /\ TheBuckets' = TheBuckets
          /\ last'.name \in DOMAIN Bucket(last'.src)]_vars

\* C22 witness: an install that copied nothing, every copy having failed,
\* replaced the entry of its target by a list of one dependency, which has
\* the target among its dependents; the zip is still available.
C22_Witness ==
  /\ last.op = "install" /\ ~last.cancelled /\ ~last.moved
  /\ last.failed # <<>> /\ Len(last.deps) = 1
  /\ dependencies[last.name] = last.deps
  /\ Contains(get_dependents(last.deps[1]), last.name)
  /\ last.src \in {"root", "unin"} /\ last.name \in DOMAIN Bucket(last.src)

\* C23: the list an install records holds names of zips that are in
\* _installed_ when it is recorded, each once; a cancelled install records
\* nothing; and no recorded list names a zip twice.
C23_RecordedFromInstalled ==
  /\ [][(InstallTurn /\ last'.op = "install")
          => IF last'.cancelled
             THEN dependencies' = dependencies /\ dependents' = dependents
             ELSE /\ Range(last'.deps) \subseteq DOMAIN inst
                  /\ \A i, j \in 1..Len(last'.deps) :
                       last'.deps[i] = last'.deps[j] => i = j
                  /\ dependencies'[last'.name] = last'.deps]_vars
  /\ [](\A n \in DOMAIN dependencies :
          \A i, j \in 1..Len(dependencies[n]) :
            dependencies[n][i] = dependencies[n][j] => i = j)

\* C23 witness: an install recorded two installed zips as its dependencies,
\* and another recorded the empty list while a zip was installed.
C23_Witness ==
  /\ last.op = "install" /\ ~last.cancelled /\ last.deps = <<>>
  /\ DOMAIN inst # {} /\ dependencies[last.name] = <<>>
  /\ \E n \in DOMAIN dependencies :
       Len(dependencies[n]) = 2 /\ dependencies[n][1] # dependencies[n][2]

\* C24: no update is recorded as its own dependency: no entry of
\* dependencies holds its own key.
C24_NoSelfDependency ==
  \A n \in DOMAIN dependencies : ~Contains(dependencies[n], n)

\* C24, for the installs of a zip whose name is not taken in _installed_:
\* the list such an install records does not hold the name of the zip.
C24_NoSelfDependencyWithoutCollision ==
  [][(InstallTurn /\ last'.op = "install" /\ ~last'.cancelled
        /\ todo[1][1] \notin DOMAIN inst)
       => ~Contains(dependencies'[todo[1][1]], todo[1][1])]_vars

\* C25: analyze_update_zip deletes only files at the paths apply_update_zip
\* writes for the same archive, which lie in the primary folder: every file
\* it deleted is the file of an entry of the archive, at the entry's path
\* below the primary folder.
C25_ReverseDeletesWhatApplyWrites ==
  last.op = "reverse"
    => (last.before.files \ files)
         \subseteq {<<"P">> \o e : e \in extracted(root[<<"p">>])}

\* C25, for the archives whose entry names have no ".." component: the
\* files analyze_update_zip deletes are at the paths apply_update_zip writes.
C25_ReverseWithoutDotDot ==
  (/\ last.op = "reverse"
   /\ \A i \in 1..Len(namelist(root[<<"p">>])) :
        ~Contains(namelist(root[<<"p">>])[i], ".."))
    => (last.before.files \ files)
         \subseteq {<<"P">> \o e : e \in extracted(root[<<"p">>])}

\* the names of the archive of the last call that are not directory entries
RegularEntries ==
  {i \in 1..Len(namelist(root[<<"p">>])) :
     namelist(root[<<"p">>])[i][Len(namelist(root[<<"p">>])[i])] # ""}

\* the paths of the failures a call reported
FailedPaths(failed) == {failed[i][1] : i \in 1..Len(failed)}

\* C26: a call of analyze_update_zip that found its archive and the primary
\* folder accounts for every regular-file entry in exactly one of removed,
\* not_found and failed: the three lists share no path and hold together as
\* many entries as the archive has regular-file entries, also when an
\* os.rmdir of an emptied directory raises.
C26_EachEntryInOneList ==
  (last.op = "reverse" /\ DeltaStarted)
    => /\ Range(last.removed) \cap Range(last.not_found) = {}
       /\ Range(last.removed) \cap FailedPaths(last.failed) = {}
       /\ Range(last.not_found) \cap FailedPaths(last.failed) = {}
       /\ Len(last.removed) + Len(last.not_found) + Len(last.failed)
            = Cardinality(RegularEntries)

\* C26, when no os.rmdir raises: the three lists hold together as many
\* entries as the archive has regular-file entries, and no path is in failed
\* and in another list.
C26_AccountedWhenRmdirSucceeds ==
  (last.op = "reverse" /\ DeltaStarted /\ ~RmdirFailed)
    => /\ Range(last.removed) \cap FailedPaths(last.failed) = {}
       /\ Range(last.not_found) \cap FailedPaths(last.failed) = {}
       /\ Len(last.removed) + Len(last.not_found) + Len(last.failed)
            = Cardinality(RegularEntries)

\* C26, when an os.rmdir raised: the file whose directory it was is in
\* removed and in failed.
C26_RmdirFailureCountsTwice ==
  (last.op = "reverse" /\ RmdirFailed)
    => /\ Range(last.removed) \cap FailedPaths(last.failed) # {}
       /\ Len(last.removed) + Len(last.not_found) + Len(last.failed)
            > Cardinality(RegularEntries)
====
